---- MODULE Spec2Model ----
(***************************************************************************)
(* Model of traceroute-script.py: the traceroute output parser, the        *)
(* sampling / deduplication loop of traceroute_analysis and gen_csv.       *)
(*                                                                         *)
(* A Python str is a sequence of strings whose concatenation it is: the    *)
(* characters the code looks at (separators, digits, signs, parentheses)   *)
(* are elements of their own.  A Python float is an exact rational         *)
(* <<numerator, denominator>> in lowest terms with a positive denominator  *)
(* (rounding of IEEE doubles is not modelled).                             *)
(* Python indexes from 0, TLA+ sequences from 1: At(s, i) is s[i] of the   *)
(* source.                                                                 *)
(***************************************************************************)
EXTENDS Integers, Sequences, FiniteSets, TLC

VARIABLES
    argv,           \* sys.argv[1:] : the command-line arguments
    urls,           \* the mirror catalog: country -> list of URLs
    count,          \* the requested number of domains
    domain_count,   \* traceroute_analysis: number of analysed domains
    final_dataset,  \* traceroute_analysis: the records appended so far
    domain,         \* traceroute_analysis: the candidate of the last iteration
    log,            \* the entries emitted through the logging module
    pc,             \* position of the program
    exception,      \* the exception that ended the program, "" if none
    csv,            \* the text gen_csv wrote to OUTPUT_CSV
    output,         \* the traceroute text, or what the last parse made of it
    result,         \* traceroute_analysis: the last geolocation response
    frame           \* parse_traceroute_output: its locals when it completed

vars == <<argv, urls, count, domain_count, final_dataset, domain, log, pc,
          exception, csv, output, result, frame>>

-----------------------------------------------------------------------------
(* Python built-ins on str, int and float *)

At(s, i) == s[i + 1]

Digits == <<"0", "1", "2", "3", "4", "5", "6", "7", "8", "9">>

IsDigit(c) == \E i \in 1..Len(Digits) : Digits[i] = c

DigitValue(c) == (CHOOSE i \in 1..Len(Digits) : Digits[i] = c) - 1

RECURSIVE Pow10(_)
Pow10(n) == IF n = 0 THEN 1 ELSE 10 * Pow10(n - 1)

RECURSIVE DigitsValue(_)
DigitsValue(s) ==
    IF s = <<>> THEN 0
    ELSE 10 * DigitsValue(SubSeq(s, 1, Len(s) - 1)) + DigitValue(s[Len(s)])

IsSign(c) == c \in {"+", "-"}

Unsigned(s) == IF s # <<>> /\ IsSign(s[1]) THEN Tail(s) ELSE s

SignOf(s) == IF s # <<>> /\ s[1] = "-" THEN 0 - 1 ELSE 1

\* int(s) succeeds: an optional sign followed by one or more digits.
py_int_ok(s) ==
    LET u == Unsigned(s)
    IN  u # <<>> /\ \A i \in 1..Len(u) : IsDigit(u[i])

py_int(s) == SignOf(s) * DigitsValue(Unsigned(s))

RECURSIVE GCD(_, _)
GCD(a, b) == IF b = 0 THEN a ELSE GCD(b, a % b)

Abs(n) == IF n < 0 THEN 0 - n ELSE n

Rat(n, d) ==
    LET g == GCD(Abs(n), Abs(d))
        s == IF d < 0 THEN 0 - 1 ELSE 1
    IN  <<(s * n) \div g, (s * d) \div g>>

RatAdd(x, y) == Rat(x[1] * y[2] + y[1] * x[2], x[2] * y[2])

RatMul(x, y) == Rat(x[1] * y[1], x[2] * y[2])

RatDivInt(x, n) == Rat(x[1], x[2] * n)

DotIndexes(s) == {i \in 1..Len(s) : s[i] = "."}

\* float(s) succeeds: an optional sign, digits with at most one decimal
\* point, at least one digit (exponents, "inf" and "nan" are not among the
\* tokens of the inputs below).
py_float_ok(s) ==
    LET u == Unsigned(s)
    IN  /\ \A i \in 1..Len(u) : IsDigit(u[i]) \/ u[i] = "."
        /\ Cardinality(DotIndexes(u)) <= 1
        /\ \E i \in 1..Len(u) : IsDigit(u[i])

py_float(s) ==
    LET u == Unsigned(s)
        dot == IF DotIndexes(u) = {} THEN Len(u) + 1
               ELSE CHOOSE i \in DotIndexes(u) : TRUE
        whole == SubSeq(u, 1, dot - 1)
        frac == SubSeq(u, dot + 1, Len(u))
    IN  Rat(SignOf(s) * (DigitsValue(whole) * Pow10(Len(frac)) + DigitsValue(frac)),
            Pow10(Len(frac)))

RECURSIVE split(_, _)
\* str.split(sep) for a one-character sep: n separators give n + 1 items,
\* the empty ones included.
split(s, sep) ==
    IF \A i \in 1..Len(s) : s[i] # sep THEN <<s>>
    ELSE LET i == CHOOSE k \in 1..Len(s) :
                      s[k] = sep /\ \A j \in 1..(k - 1) : s[j] # sep
         IN  <<SubSeq(s, 1, i - 1)>> \o split(SubSeq(s, i + 1, Len(s)), sep)

RECURSIVE lstrip(_, _)
lstrip(s, c) == IF s # <<>> /\ s[1] = c THEN lstrip(Tail(s), c) ELSE s

RECURSIVE rstrip(_, _)
rstrip(s, c) ==
    IF s # <<>> /\ s[Len(s)] = c THEN rstrip(SubSeq(s, 1, Len(s) - 1), c) ELSE s

\* str.strip(c) for a one-character c
strip(s, c) == rstrip(lstrip(s, c), c)

reversed(s) == [i \in 1..Len(s) |-> s[Len(s) + 1 - i]]

RECURSIVE sum(_)
\* sum() of a list of floats
sum(xs) == IF xs = <<>> THEN Rat(0, 1) ELSE RatAdd(xs[1], sum(Tail(xs)))

-----------------------------------------------------------------------------
(* parse_traceroute_output *)

TokenThreshold == 12

IpIndex == 3

FirstTimeIndex == 5

TimingAttempts == 3

None == [kind |-> "None"]

Raise(e) == [kind |-> "raise", exc |-> e]

Frame(ret, scanned, line_item, index, hop_times, reads) ==
    [ret |-> ret, scanned |-> scanned, line_item |-> line_item,
     index |-> index, hop_times |-> hop_times, reads |-> reads]

\* too_short with the threshold off by one
too_short_off_by_one(line_item) == Len(line_item) <= TokenThreshold + 1

\* the line is passed over by the backward scan
too_short(line_item) == Len(line_item) <= TokenThreshold

\* next_index that forgets to step over the unit after a sample
next_index_by_one(index, parsed) == index + 1

\* the index of the next timing attempt
next_index(index, parsed) == IF parsed THEN index + 2 ELSE index + 1

RECURSIVE hop_loop(_, _, _, _, _)
\* The loop "for _ in range(3)": n attempts are left.  reads records the
\* value of index at each float(line_item[index]).
hop_loop(line_item, n, index, hop_times, reads) ==
    IF n = 0 THEN [exc |-> "", index |-> index, hop_times |-> hop_times,
                   reads |-> reads]
    ELSE IF index >= Len(line_item)
    THEN [exc |-> "IndexError", index |-> index, hop_times |-> hop_times,
          reads |-> Append(reads, index)]
    ELSE IF py_float_ok(At(line_item, index))
    THEN hop_loop(line_item, n - 1, next_index(index, TRUE),
                  Append(hop_times, py_float(At(line_item, index))),
                  Append(reads, index))
    ELSE hop_loop(line_item, n - 1, next_index(index, FALSE), hop_times,
                  Append(reads, index))

\* (sum(hop_times)/len(hop_times))/2 ; the caller excludes len = 0
one_way_time(hop_times) == RatDivInt(RatDivInt(sum(hop_times), Len(hop_times)), 2)

ip_addr(line_item) == strip(strip(At(line_item, IpIndex), "("), ")")

\* the body of the scan for a line that is not passed over
hop_line(line_item, scanned) ==
    IF ~py_int_ok(At(line_item, 0))
    THEN Frame(None, scanned, line_item, 0, <<>>, <<>>)
    ELSE LET t == hop_loop(line_item, TimingAttempts, FirstTimeIndex, <<>>, <<>>)
             ret == IF t.exc # "" THEN Raise(t.exc)
                    ELSE IF Len(t.hop_times) = 0 THEN Raise("ZeroDivisionError")
                    ELSE [kind |-> "tuple",
                          hop_num |-> py_int(At(line_item, 0)),
                          ip_addr |-> ip_addr(line_item),
                          one_way_time |-> one_way_time(t.hop_times)]
         IN  Frame(ret, scanned, line_item, t.index, t.hop_times, t.reads)

RECURSIVE scan_skipping(_, _)
\* scan that passes over a line whose hop index is not an integer
scan_skipping(items, k) ==
    IF k > Len(items) THEN Frame(None, k - 1, <<>>, 0, <<>>, <<>>)
    ELSE LET line_item == split(items[k], " ")
         IN  IF too_short(line_item) \/ ~py_int_ok(At(line_item, 0))
             THEN scan_skipping(items, k + 1)
             ELSE hop_line(line_item, k)

RECURSIVE scan(_, _)
\* "for line in items": the lines items[k..] are still to be examined.
\* Falling off the end of the loop returns None.
scan(items, k) ==
    IF k > Len(items) THEN Frame(None, k - 1, <<>>, 0, <<>>, <<>>)
    ELSE LET line_item == split(items[k], " ")
         IN  IF too_short(line_item) THEN scan(items, k + 1)
             ELSE hop_line(line_item, k)

parse_frame(text) == scan(reversed(split(text, "\n")), 1)

parse_traceroute_output(text) == parse_frame(text).ret

NoFrame == Frame(None, 0, <<>>, 0, <<>>, <<>>)

-----------------------------------------------------------------------------
(* Inputs of parse_traceroute_output: traceroute outputs of a few lines *)

MaxBefore == 1

MaxAfter == 3

RECURSIVE join(_, _)
\* sep.join(items)
join(items, sep) ==
    IF items = <<>> THEN <<>>
    ELSE IF Len(items) = 1 THEN items[1]
    ELSE items[1] \o <<sep>> \o join(Tail(items), sep)

SeqsUpTo(S, n) == UNION {[1..k -> S] : k \in 0..n}

Empty == <<>>

W15 == <<"1", "5">>

W7 == <<"7">>

WHost == <<"h">>

WIp == <<"(", "1", ".", "2", ")">>

WMs == <<"m", "s">>

WStar == <<"*">>

T1 == <<"1", ".", "5">>

T2 == <<"2">>

T3 == <<"2", ".", "5">>

T4 == <<"4">>

T5 == <<"3", ".", "5">>

\* "traceroute to h (1.2), 30 hops max": 7 items
HeaderLine ==
    join(<<(<<"t">>), (<<"t", "o">>), WHost, (<<"(", "1", ".", "2", ")", ",">>),
           (<<"3", "0">>), (<<"h", "o", "p", "s">>), (<<"m", "a", "x">>)>>, " ")

\* "15  * * *": 5 items
StarLine == join(<<W15, Empty, WStar, WStar, WStar>>, " ")

\* "15 h (1.2) 1.5 ms 2 ms 2.5 ms * * *": 12 items, just under the threshold
TwelveLine ==
    join(<<W15, WHost, WIp, T1, WMs, T2, WMs, T3, WMs, WStar, WStar, WStar>>, " ")

\* "15  h (1.2)  1.5 ms  2.5 ms  3.5 ms", the usual shape of a hop line:
\* 9 words, 13 items
UsualLine ==
    join(<<W15, Empty, WHost, WIp, Empty, T1, WMs, Empty, T3, WMs, Empty, T5, WMs>>,
         " ")

\* " 7  h (1.2)  1.5 ms  2.5 ms  3.5 ms": traceroute pads a hop index below 10
PaddedLine ==
    join(<<Empty, W7, Empty, WHost, WIp, Empty, T1, WMs, Empty, T3, WMs, Empty, T5,
           WMs>>, " ")

\* "7 h h (1.2) h 1.5 ms 2 ms 2.5 ms h h h h": 15 words, 15 items
FifteenLine ==
    join(<<W7, WHost, WHost, WIp, WHost, T1, WMs, T2, WMs, T3, WMs, WHost, WHost,
           WHost, WHost>>, " ")

\* "15  h (1.2)  1.5 ms h (1.2)  2 ms h (1.2)  2.5 ms": three answering hosts
ThreeHostLine ==
    join(<<W15, Empty, WHost, WIp, Empty, T1, WMs, WHost, WIp, Empty, T2, WMs, WHost,
           WIp, Empty, T3, WMs>>, " ")

\* "15  h (1.2)  * h (1.2)  1.5 ms h (1.2)  2 ms": the first probe timed out
TimeoutFirstLine ==
    join(<<W15, Empty, WHost, WIp, Empty, WStar, WHost, WIp, Empty, T1, WMs, WHost,
           WIp, Empty, T2, WMs>>, " ")

\* "15 h h (1.2) h t5 t6 t7 t8 t9 h h h": each of the items 5..9 is a number
\* or "ms"
TimingLine(S) ==
    join(<<W15, WHost, WHost, WIp, WHost,
           IF 1 \in S THEN T1 ELSE WMs, IF 2 \in S THEN T2 ELSE WMs,
           IF 3 \in S THEN T3 ELSE WMs, IF 4 \in S THEN T4 ELSE WMs,
           IF 5 \in S THEN T5 ELSE WMs, WHost, WHost, WHost>>, " ")

TimingLines == {TimingLine(S) : S \in SUBSET (1..5)}

ShortLines == {Empty, HeaderLine}

BeforeLines == {StarLine, UsualLine, PaddedLine, FifteenLine}

FixedLines == {Empty, HeaderLine, StarLine, TwelveLine, UsualLine, PaddedLine,
               FifteenLine, ThreeHostLine, TimeoutFirstLine}

Texts ==
    {join(before \o <<mid>> \o after, "\n") :
        before \in SeqsUpTo(BeforeLines, MaxBefore),
        mid \in FixedLines \cup TimingLines,
        after \in SeqsUpTo(ShortLines, MaxAfter)}

-----------------------------------------------------------------------------
(* The parser on its own: one call of parse_traceroute_output *)

InertMain ==
    /\ argv = <<>>
    /\ urls = <<>>
    /\ count = 0
    /\ domain_count = 0
    /\ final_dataset = <<>>
    /\ domain = <<>>
    /\ log = <<>>
    /\ exception = ""
    /\ csv = <<>>
    /\ result = <<>>

InitParse ==
    /\ InertMain
    /\ pc = "parse"
    /\ output \in Texts
    /\ frame = NoFrame

Parse ==
    /\ pc = "parse"
    /\ frame' = parse_frame(output)
    /\ pc' = "parsed"
    /\ UNCHANGED <<argv, urls, count, domain_count, final_dataset, domain, log,
                   exception, csv, output, result>>

NextParse == Parse

SpecParse == InitParse /\ [][NextParse]_vars

-----------------------------------------------------------------------------
(* Properties of parse_traceroute_output *)

LinesOf(text) == split(text, "\n")

\* the lines, of a sequence of lines, with more than 12 items between single
\* spaces
LongLines(lines) == {k \in 1..Len(lines) : Len(split(lines[k], " ")) > 12}

Last(S) == CHOOSE k \in S : \A j \in S : j <= k

\* the whitespace-separated tokens of a line split on single spaces
Words(line_item) == SelectSeq(line_item, LAMBDA w : w # <<>>)

IsParen(c) == c \in {"(", ")"}

\* bare is tok without the parentheses around it
ParensRemoved(tok, bare) ==
    /\ \E i \in 1..(Len(tok) + 1), j \in 0..Len(tok) :
          /\ bare = SubSeq(tok, i, j)
          /\ \A k \in 1..Len(tok) : (k < i \/ k > j) => IsParen(tok[k])
    /\ bare # <<>> => ~IsParen(bare[1]) /\ ~IsParen(bare[Len(bare)])

Returned == pc = "parsed" /\ frame.ret.kind = "tuple"

\* C5 as stated: the line the result is taken from has at least 13
\* whitespace-separated tokens; the hop count is the integer value of its
\* first token and the IP is its token at index 3 without the parentheses.
C5_Original ==
    Returned =>
        LET words == Words(frame.line_item)
        IN  /\ Len(words) >= 13
            /\ frame.ret.hop_num = py_int(At(words, 0))
            /\ ParensRemoved(At(words, 3), frame.ret.ip_addr)

\* C5, amended: a returned result is taken from the line closest to the end
\* that has more than 12 items when split on every single space (empty items
\* between adjacent spaces count); the hop count is the integer value of item
\* 0 of that line and the IP is its item 3 without the parentheses around it.
C5_HopLineBySpaceSplit ==
    Returned =>
        LET lines == LinesOf(output)
            long == LongLines(lines)
        IN  /\ long # {}
            /\ LET item == split(lines[Last(long)], " ")
               IN  /\ frame.scanned = Len(lines) + 1 - Last(long)
                   /\ frame.line_item = item
                   /\ frame.ret.hop_num = py_int(item[1])
                   /\ ParensRemoved(item[4], frame.ret.ip_addr)

\* three lines of at most 12 items follow a 15-item line that starts with 7
C5_Witness ==
    /\ Returned
    /\ frame.scanned = 4
    /\ Len(frame.line_item) = 15
    /\ frame.ret.hop_num = 7
    /\ frame.ret.ip_addr = <<"1", ".", "2">>

\* C6: when the line closest to the end with more than 12 items does not
\* start with an integer, the parse returns None and has examined no line
\* before that one.
C6_NonIntegerFailsAtOnce ==
    pc = "parsed" =>
        LET lines == LinesOf(output)
            long == LongLines(lines)
        IN  (long # {} /\ ~py_int_ok(split(lines[Last(long)], " ")[1]))
            => /\ frame.ret = None
               /\ frame.scanned = Len(lines) + 1 - Last(long)

\* the failing line is preceded by a line that parses to a result on its own
C6_Witness ==
    /\ pc = "parsed"
    /\ frame.ret = None
    /\ frame.line_item # <<>>
    /\ LET lines == LinesOf(output)
       IN  \E j \in 1..Len(lines) :
              /\ j < Last(LongLines(lines))
              /\ parse_traceroute_output(lines[j]).kind = "tuple"

\* C7: the parse completes with a triple or with None, never by raising.
C7_NeverRaises == pc = "parsed" => frame.ret.kind \in {"tuple", "None"}

\* the indexes of the three timing attempts on a line
ExpectedReads(li) ==
    LET r1 == 5
        r2 == IF py_float_ok(At(li, r1)) THEN r1 + 2 ELSE r1 + 1
        r3 == IF py_float_ok(At(li, r2)) THEN r2 + 2 ELSE r2 + 1
    IN  <<r1, r2, r3>>

SampleAt(li, i) == IF py_float_ok(At(li, i)) THEN <<py_float(At(li, i))>> ELSE <<>>

\* t = (h[1] + ... + h[n]) / n / 2, cross-multiplied
IsHalfMean(t, h) ==
    LET n == Len(h)
        den(i) == IF i <= n THEN h[i][2] ELSE 1
        num(i) == IF i <= n THEN h[i][1] ELSE 0
        D == den(1) * den(2) * den(3)
        N == num(1) * (D \div den(1)) + num(2) * (D \div den(2))
             + num(3) * (D \div den(3))
    IN  t[1] * D * 2 * n = N * t[2]

\* C10: on the hop line there are exactly three timing attempts, at index 5
\* and then 2 further after a number and 1 further after anything else; each
\* index is inside the line and at most 9; the samples are the numbers read,
\* at most three; a returned one-way time is (sum / number of samples) / 2.
C10_TimingAttempts ==
    (pc = "parsed" /\ frame.line_item # <<>> /\ py_int_ok(At(frame.line_item, 0)))
    => LET li == frame.line_item
           R == ExpectedReads(li)
       IN  /\ frame.reads = R
           /\ \A j \in 1..3 : R[j] < Len(li) /\ R[j] <= 9
           /\ frame.hop_times = SampleAt(li, R[1]) \o SampleAt(li, R[2])
                                  \o SampleAt(li, R[3])
           /\ Len(frame.hop_times) <= 3
           /\ frame.ret.kind \in {"tuple", "raise"}
           /\ frame.ret.kind = "raise" => frame.ret.exc # "IndexError"
           /\ frame.ret.kind = "tuple"
                => IsHalfMean(frame.ret.one_way_time, frame.hop_times)

\* a failed attempt at 5, then samples at 6 and 8
C10_Witness ==
    /\ Returned
    /\ frame.reads = <<5, 6, 8>>
    /\ Len(frame.hop_times) = 2

-----------------------------------------------------------------------------
(* str() of the values gen_csv writes *)

RECURSIVE NatDigits(_)
NatDigits(n) ==
    IF n < 10 THEN <<Digits[n + 1]>>
    ELSE NatDigits(n \div 10) \o <<Digits[(n % 10) + 1]>>

\* str(n) for an int
py_str_int(n) == IF n < 0 THEN <<"-">> \o NatDigits(0 - n) ELSE NatDigits(n)

RECURSIVE FracDigits(_, _, _)
\* the decimal digits of rem/den, at most k of them
FracDigits(rem, den, k) ==
    IF rem = 0 \/ k = 0 THEN <<>>
    ELSE <<Digits[((rem * 10) \div den) + 1]>>
         \o FracDigits((rem * 10) % den, den, k - 1)

\* str(x) for a float: the decimal expansion, "1.0" for a whole number
\* (exact for the terminating expansions the inputs below produce; Python
\* prints at most 17 significant digits)
py_str_float(x) ==
    LET n == Abs(x[1])
        frac == FracDigits(n % x[2], x[2], 17)
    IN  (IF x[1] < 0 THEN <<"-">> ELSE <<>>) \o NatDigits(n \div x[2]) \o <<".">>
        \o (IF frac = <<>> THEN <<"0">> ELSE frac)

-----------------------------------------------------------------------------
(* dist_from_source, for coordinates that are whole multiples of 90 degrees *)

R == 6371

\* math.pi to four decimals
Pi == Rat(31416, 10000)

\* the module-level values; main replaces them by those of SOURCE_LOC_FILE
HOME_LAT == Rat(0, 1)

HOME_LON == Rat(0, 1)

Deg(x) == (x[1] \div x[2]) % 360

\* math.sin(deg2rad(d)/2) squared
SinHalfSquared(d) ==
    IF d = 0 THEN Rat(0, 1) ELSE IF d = 180 THEN Rat(1, 1) ELSE Rat(1, 2)

\* math.cos(deg2rad(d))
Cos(d) == IF d = 0 THEN Rat(1, 1) ELSE IF d = 180 THEN Rat(0 - 1, 1) ELSE Rat(0, 1)

\* 2 * math.atan2(math.sqrt(a), math.sqrt(1 - a)) for a in {0, 1/2, 1}
CentralAngle(a) ==
    IF a = Rat(0, 1) THEN Rat(0, 1)
    ELSE IF a = Rat(1, 1) THEN Pi
    ELSE RatDivInt(Pi, 2)

getDistanceFromLatLonInKm(lat1, lon1, lat2, lon2) ==
    LET dLat == Deg(RatAdd(lat2, RatMul(Rat(0 - 1, 1), lat1)))
        dLon == Deg(RatAdd(lon2, RatMul(Rat(0 - 1, 1), lon1)))
        a == RatAdd(SinHalfSquared(dLat),
                    RatMul(RatMul(Cos(Deg(lat1)), Cos(Deg(lat2))),
                           SinHalfSquared(dLon)))
    IN  RatMul(Rat(R, 1), CentralAngle(a))

dist_from_source(lat, lon) == getDistanceFromLatLonInKm(lat, lon, HOME_LAT, HOME_LON)

-----------------------------------------------------------------------------
(* pick_urls, extract_domains, is_duplicate *)

UrlDelimiters == {"/", "?", "#"}

\* the index of the first element of s that is in S, Len(s) + 1 if none is
FirstIn(s, S) ==
    IF \E i \in 1..Len(s) : s[i] \in S
    THEN CHOOSE i \in 1..Len(s) : s[i] \in S /\ \A j \in 1..(i - 1) : s[j] \notin S
    ELSE Len(s) + 1

\* urlparse(url).netloc: what follows "//" after the scheme, up to the next
\* "/", "?" or "#"
netloc(url) ==
    LET colon == FirstIn(url, UrlDelimiters \cup {":"})
        rest == IF colon > 1 /\ colon <= Len(url) /\ url[colon] = ":"
                THEN SubSeq(url, colon + 1, Len(url)) ELSE url
    IN  IF Len(rest) >= 2 /\ rest[1] = "/" /\ rest[2] = "/"
        THEN LET tail == SubSeq(rest, 3, Len(rest))
             IN  SubSeq(tail, 1, FirstIn(tail, UrlDelimiters) - 1)
        ELSE <<>>

\* the URLs pick_urls(urls, 1) can return
pick_urls(catalog) ==
    UNION {{catalog[c][i] : i \in 1..Len(catalog[c])} : c \in DOMAIN catalog}

\* random.choice raises IndexError on an empty sequence
pick_urls_can_raise(catalog) ==
    DOMAIN catalog = {} \/ \E c \in DOMAIN catalog : catalog[c] = <<>>

\* is_duplicate that reports no duplicate
is_duplicate_never(d, dataset) == FALSE

is_duplicate(d, dataset) == \E i \in 1..Len(dataset) : dataset[i].domain = d

-----------------------------------------------------------------------------
(* traceroute_analysis *)

\* the check 'if ("success" in result and not result["success"])' ignored
geo_failed_ignored(response) == FALSE

geo_failed(response) == "success" \in DOMAIN response /\ ~response["success"]

GeoFields == {"latitude", "longitude", "city", "country_name"}

\* result['latitude'] ... result['country_name'] raises KeyError
geo_key_error(response) == ~(GeoFields \subseteq DOMAIN response)

Entry(level, msg, arg) == [level |-> level, msg |-> msg, arg |-> arg]

RunningLog(d) ==
    <<Entry("INFO", "Running traceroute for domain", d),
      Entry("INFO", "Traceroute complete.", <<>>)>>

ParseFailureLog(d) == <<Entry("ERROR", "Failed analysis for domain", d)>>

GeoFailureLog(ip, d) ==
    <<Entry("ERROR", "Failed to get geolocation of IP Address of", ip),
      Entry("ERROR", "Exiting traceroute analysis for domain", d)>>

CompleteLog(d) == <<Entry("INFO", "Complete analysis for domain", d)>>

UsageLog == <<Entry("ERROR", "Please provide a valid number of URLs", <<>>)>>

Record(d, parsed, response) ==
    [domain |-> d,
     hops |-> parsed.hop_num,
     ipa |-> parsed.ip_addr,
     time |-> parsed.one_way_time,
     lat |-> response["latitude"],
     lon |-> response["longitude"],
     city |-> response["city"],
     dist |-> dist_from_source(response["latitude"], response["longitude"]),
     country |-> response["country_name"]]

-----------------------------------------------------------------------------
(* gen_csv *)

\* the column names; no name holds a comma
Header ==
    <<(<<"No.">>), (<<"Web Server">>), (<<"IP Address">>), (<<"Number of hops">>),
      (<<"One-Way transit time ", "(", "ms", ")">>),
      (<<"Geo Distance ", "(", "km", ")">>), (<<"City">>), (<<"Country">>),
      (<<"Latitude">>), (<<"Longitude">>)>>

\* [str(count)] + [str(item[f[1]]) for f in fields]
Row(n, item) ==
    <<py_str_int(n), item.domain, item.ipa, py_str_int(item.hops),
      py_str_float(item.time), py_str_float(item.dist), item.city, item.country,
      py_str_float(item.lat), py_str_float(item.lon)>>

RECURSIVE Rows(_, _)
\* the rows of dataset[n..]
Rows(dataset, n) ==
    IF n > Len(dataset) THEN <<>>
    ELSE join(Row(n, dataset[n]), ",") \o <<"\n">> \o Rows(dataset, n + 1)

gen_csv(dataset) == join(Header, ",") \o <<"\n">> \o Rows(dataset, 1)

-----------------------------------------------------------------------------
(* Inputs of main: command lines, catalogs, traceroute outputs and         *)
(* geolocation responses                                                   *)

MaxCount == 2

MaxLog == 6

Args == {py_str_int(n) : n \in (0 - 1)..MaxCount} \cup {<<"x">>}

CommandLines == {<<>>} \cup {<<a>> : a \in Args}

UrlA1 == <<"http", ":", "/", "/", "a.example.com", "/", "x">>

UrlA2 == <<"http", ":", "/", "/", "a.example.com", "/", "y">>

UrlB == <<"http", ":", "/", "/", "b.example.com", "/", "y">>

UrlC == <<"https", ":", "/", "/", "c.example.com">>

Catalogs ==
    {[Testland |-> <<UrlA1, UrlB>>],
     [Testland |-> <<UrlA1, UrlA2>>],
     [Testland |-> <<UrlA1, UrlB>>, Otherland |-> <<UrlA2, UrlC>>],
     [Testland |-> <<UrlA1>>, Otherland |-> <<>>],
     <<>>}

\* what get_traceroute_result can return
ProbeOutputs ==
    {join(<<HeaderLine, StarLine, UsualLine, Empty>>, "\n"),
     join(<<HeaderLine, FifteenLine, StarLine, Empty>>, "\n"),
     join(<<HeaderLine, PaddedLine, Empty>>, "\n"),
     join(<<HeaderLine, StarLine, Empty>>, "\n"),
     Empty,
     join(<<HeaderLine, UsualLine, TimeoutFirstLine, Empty>>, "\n")}

\* what requests.get(...).json() can return
GeoResponses ==
    {[latitude |-> Rat(0, 1), longitude |-> Rat(90, 1), city |-> <<"Quito">>,
      country_name |-> <<"Ecuador">>],
     [latitude |-> Rat(90, 1), longitude |-> Rat(0, 1),
      city |-> <<"Washington", ",", " ", "D.C.">>,
      country_name |-> <<"United States">>],
     [success |-> FALSE],
     [ip |-> <<"1", ".", "2">>]}

-----------------------------------------------------------------------------
(* main: get_count_for_traceroute, traceroute_analysis, gen_csv *)

Init ==
    /\ argv \in CommandLines
    /\ urls \in Catalogs
    /\ count = 0
    /\ domain_count = 0
    /\ final_dataset = <<>>
    /\ domain = <<>>
    /\ log = <<>>
    /\ pc = "start"
    /\ exception = ""
    /\ csv = <<>>
    /\ output = <<>>
    /\ result = <<>>
    /\ frame = NoFrame

\* get_count_for_traceroute returns int(sys.argv[1]); traceroute_analysis
\* starts with domain_count = 0 and final_dataset = []
GetCount ==
    /\ pc = "start"
    /\ argv # <<>> /\ py_int_ok(argv[1])
    /\ count' = py_int(argv[1])
    /\ domain_count' = 0
    /\ final_dataset' = <<>>
    /\ pc' = "loop"
    /\ UNCHANGED <<argv, urls, domain, log, exception, csv, output, result, frame>>

\* get_count_for_traceroute: IndexError or ValueError, exit(1)
UsageError ==
    /\ pc = "start"
    /\ IF argv = <<>> THEN TRUE ELSE ~py_int_ok(argv[1])
    /\ log' = log \o UsageLog
    /\ pc' = "exit"
    /\ UNCHANGED <<argv, urls, count, domain_count, final_dataset, domain,
                   exception, csv, output, result, frame>>

InLoop == pc = "loop" /\ domain_count < count

\* random.choice raises IndexError in pick_urls
SampleRaises ==
    /\ InLoop
    /\ pick_urls_can_raise(urls)
    /\ pc' = "raised"
    /\ exception' = "IndexError"
    /\ UNCHANGED <<argv, urls, count, domain_count, final_dataset, domain, log,
                   csv, output, result, frame>>

\* the sampled domain is in final_dataset: continue
Duplicate(url) ==
    /\ InLoop
    /\ url \in pick_urls(urls)
    /\ domain' = netloc(url)
    /\ is_duplicate(netloc(url), final_dataset)
    /\ UNCHANGED <<argv, urls, count, domain_count, final_dataset, log, pc,
                   exception, csv, output, result, frame>>

\* an iteration that gets to parse_traceroute_output(text); the length of
\* the log bounds the number of such iterations
Probed(url, text) ==
    /\ InLoop
    /\ Len(log) < MaxLog
    /\ url \in pick_urls(urls)
    /\ domain' = netloc(url)
    /\ ~is_duplicate(netloc(url), final_dataset)
    /\ output' = parse_traceroute_output(text)

\* parse_traceroute_output returns None: log the failure, continue
ParseFails(url, text) ==
    /\ Probed(url, text)
    /\ output'.kind = "None"
    /\ log' = log \o RunningLog(domain') \o ParseFailureLog(domain')
    /\ UNCHANGED <<argv, urls, count, domain_count, final_dataset, pc, exception,
                   csv, result, frame>>

\* parse_traceroute_output raises: the exception leaves traceroute_analysis
ParseRaises(url, text) ==
    /\ Probed(url, text)
    /\ output'.kind = "raise"
    /\ log' = log \o RunningLog(domain')
    /\ pc' = "raised"
    /\ exception' = output'.exc
    /\ UNCHANGED <<argv, urls, count, domain_count, final_dataset, csv, result,
                   frame>>

\* an iteration that gets to the geolocation request
Located(url, text, response) ==
    /\ Probed(url, text)
    /\ output'.kind = "tuple"
    /\ result' = response

\* the response says success = false: log the failure, continue
GeoFails(url, text, response) ==
    /\ Located(url, text, response)
    /\ geo_failed(response)
    /\ log' = log \o RunningLog(domain')
                  \o GeoFailureLog(output'.ip_addr, domain')
    /\ UNCHANGED <<argv, urls, count, domain_count, final_dataset, pc, exception,
                   csv, frame>>

\* the response lacks a field: KeyError leaves traceroute_analysis
GeoRaises(url, text, response) ==
    /\ Located(url, text, response)
    /\ ~geo_failed(response)
    /\ geo_key_error(response)
    /\ log' = log \o RunningLog(domain')
    /\ pc' = "raised"
    /\ exception' = "KeyError"
    /\ UNCHANGED <<argv, urls, count, domain_count, final_dataset, csv, frame>>

\* the record is appended and counted
Analysed(url, text, response) ==
    /\ Located(url, text, response)
    /\ ~geo_failed(response)
    /\ ~geo_key_error(response)
    /\ final_dataset' = Append(final_dataset, Record(domain', output', response))
    /\ log' = log \o RunningLog(domain') \o CompleteLog(domain')
    /\ domain_count' = domain_count + 1
    /\ UNCHANGED <<argv, urls, count, pc, exception, csv, frame>>

\* while (domain_count < count) is over: return final_dataset
Return ==
    /\ pc = "loop"
    /\ ~(domain_count < count)
    /\ pc' = "returned"
    /\ UNCHANGED <<argv, urls, count, domain_count, final_dataset, domain, log,
                   exception, csv, output, result, frame>>

\* gen_csv(dataset, OUTPUT_CSV)
GenCsv ==
    /\ pc = "returned"
    /\ csv' = gen_csv(final_dataset)
    /\ pc' = "done"
    /\ UNCHANGED <<argv, urls, count, domain_count, final_dataset, domain, log,
                   exception, output, result, frame>>

DuplicateStep == \E url \in pick_urls(urls) : Duplicate(url)

ParseFailsStep ==
    \E url \in pick_urls(urls), text \in ProbeOutputs : ParseFails(url, text)

ParseRaisesStep ==
    \E url \in pick_urls(urls), text \in ProbeOutputs : ParseRaises(url, text)

GeoFailsStep ==
    \E url \in pick_urls(urls), text \in ProbeOutputs, response \in GeoResponses :
        GeoFails(url, text, response)

GeoRaisesStep ==
    \E url \in pick_urls(urls), text \in ProbeOutputs, response \in GeoResponses :
        GeoRaises(url, text, response)

AnalysedStep ==
    \E url \in pick_urls(urls), text \in ProbeOutputs, response \in GeoResponses :
        Analysed(url, text, response)

Next ==
    \/ GetCount
    \/ UsageError
    \/ SampleRaises
    \/ DuplicateStep
    \/ ParseFailsStep
    \/ ParseRaisesStep
    \/ GeoFailsStep
    \/ GeoRaisesStep
    \/ AnalysedStep
    \/ Return
    \/ GenCsv

Spec == Init /\ [][Next]_vars

-----------------------------------------------------------------------------
(* Properties of traceroute_analysis and gen_csv *)

DomainsOf(dataset) == {dataset[i].domain : i \in 1..Len(dataset)}

\* C1: no two records of final_dataset have the same domain.
C1_NoDuplicateDomains ==
    \A i, j \in 1..Len(final_dataset) :
        i # j => final_dataset[i].domain # final_dataset[j].domain

\* two records, from a catalog in which two URLs share a domain
C1_Witness ==
    /\ Len(final_dataset) = 2
    /\ \E u, v \in pick_urls(urls) : u # v /\ netloc(u) = netloc(v)

HasReturned == pc \in {"returned", "done"}

\* C2: when traceroute_analysis returns, the dataset has exactly count
\* records, for every count the command line accepts.
C2_LengthEqualsCount == HasReturned => Len(final_dataset) = count

NineFields ==
    {"domain", "hops", "ipa", "time", "lat", "lon", "city", "dist", "country"}

\* the step is a loop iteration that sampled a domain not yet in the dataset
\* (pick_urls did not raise, so domain' is the domain of this iteration)
FreshCandidate ==
    /\ pc = "loop"
    /\ domain_count < count
    /\ exception' # "IndexError"
    /\ ~(\E i \in 1..Len(final_dataset) : final_dataset[i].domain = domain')

RefusedResponse(response) ==
    "success" \in DOMAIN response /\ response["success"] = FALSE

\* the candidate of the step failed to parse or to be located
CandidateFailed ==
    \/ output'.kind = "None"
    \/ output'.kind = "tuple" /\ RefusedResponse(result')

ErrorLoggedFor(d) ==
    /\ SubSeq(log', 1, Len(log)) = log
    /\ \E i \in (Len(log) + 1)..Len(log') :
          log'[i].level = "ERROR" /\ log'[i].arg = d

\* C3: an iteration whose candidate fails leaves final_dataset and
\* domain_count unchanged, logs an error for the candidate and stays in the
\* loop; a record is appended only when parsing and geolocation both
\* succeeded, and it has all nine fields.
C3_FailureAppendsNothing ==
    [][/\ (FreshCandidate /\ CandidateFailed)
            => /\ final_dataset' = final_dataset
               /\ domain_count' = domain_count
               /\ ErrorLoggedFor(domain')
               /\ pc' = "loop"
               /\ exception' = ""
       /\ final_dataset' # final_dataset
            => /\ output'.kind = "tuple"
               /\ ~RefusedResponse(result')
               /\ Len(final_dataset') = Len(final_dataset) + 1
               /\ SubSeq(final_dataset', 1, Len(final_dataset)) = final_dataset
               /\ DOMAIN final_dataset'[Len(final_dataset')] = NineFields
               /\ final_dataset'[Len(final_dataset')].domain = domain'
               /\ domain_count' = domain_count + 1]_vars

\* a failed candidate after a successful one: the record is still alone
C3_Witness ==
    /\ pc = "loop"
    /\ Len(final_dataset) = 1
    /\ domain_count = 1
    /\ log # <<>>
    /\ log[Len(log)].level = "ERROR"
    /\ log[Len(log)].arg = domain

ExitedAt(i, d) ==
    log[i].msg = "Exiting traceroute analysis for domain" /\ log[i].arg = d

CompletedAt(i, d) ==
    log[i].msg = "Complete analysis for domain" /\ log[i].arg = d

StartedAt(i, d) ==
    log[i].msg = "Running traceroute for domain" /\ log[i].arg = d

LoggedDomains == {log[i].arg : i \in 1..Len(log)}

\* C4 as stated: a domain for which a lookup returned success = false is in
\* no record of the returned dataset.
C4_Original ==
    HasReturned =>
        \A i \in 1..Len(log) : \A d \in LoggedDomains :
            ExitedAt(i, d) => d \notin DomainsOf(final_dataset)

\* C4, amended: when a lookup for d returned success = false, no record for
\* d was appended in that iteration or before it; d is in the dataset only
\* if a later iteration sampled d again and completed its analysis.
C4_DiscardedUntilResampled ==
    \A i \in 1..Len(log) : \A d \in LoggedDomains :
        ExitedAt(i, d) =>
            /\ \A j \in 1..i : ~CompletedAt(j, d)
            /\ d \in DomainsOf(final_dataset) =>
                  \E j \in (i + 1)..Len(log) : \E k \in (j + 1)..Len(log) :
                      StartedAt(j, d) /\ CompletedAt(k, d)

\* a domain whose lookup was refused and which was analysed later
C4_Witness ==
    /\ HasReturned
    /\ \E i \in 1..Len(log) : \E d \in DomainsOf(final_dataset) : ExitedAt(i, d)

\* the lines of a text that ends each line with a newline
CsvLines(text) ==
    LET items == split(text, "\n") IN SubSeq(items, 1, Len(items) - 1)

\* C8: the CSV has len(dataset) + 1 lines, every line has the 10 columns of
\* the header, and the rows are numbered from 1 in the first column.
C8_Original ==
    pc = "done" =>
        LET lines == CsvLines(csv)
        IN  /\ Len(lines) = Len(final_dataset) + 1
            /\ \A r \in 1..Len(lines) : Len(split(lines[r], ",")) = 10
            /\ \A r \in 2..Len(lines) : split(lines[r], ",")[1] = py_str_int(r - 1)

DistinctDomains == {netloc(u) : u \in pick_urls(urls)}

\* the catalog has fewer distinct domains than were asked for
TooFewDomains ==
    pc \notin {"start", "exit"} /\ Cardinality(DistinctDomains) < count

\* every domain of the catalog is in the dataset and more are wanted
Exhausted ==
    /\ pc = "loop"
    /\ domain_count < count
    /\ DistinctDomains \subseteq DomainsOf(final_dataset)

====
